---- MODULE Spec2Model ----
(***************************************************************************)
(* The two notebooks of the lab as state machines.                         *)
(*                                                                         *)
(*   Spec      the text-embedding notebook end to end: the filing loop,    *)
(*             create_text_embedding_entries, the staging cells and the    *)
(*             bulk upsert loop against the graph store.                   *)
(*   SpecLoad  the bulk upsert loop alone, started from the staged         *)
(*             records of completed embedding runs that are long enough    *)
(*             to need several batches of 100.                             *)
(*   SpecChat  the chat wrapper of the chatbot notebook.                   *)
(***************************************************************************)
EXTENDS Integers, Sequences, FiniteSets, TLC

(***************************************************************************)
(* Bounds of the model.                                                    *)
(***************************************************************************)
MaxFiles == 2
MaxChunks == 11
MaxRuns == 2
LoadMaxBatches == 2
LoadSlack == 1
MaxTurns == 2
MaxHistory == 1
MaxProbeLen == 7
MaxProbeSize == 4

(***************************************************************************)
(* Input alphabets.                                                        *)
(***************************************************************************)
Names == {"Acme", "Acme1"}
Cusips == {"C1", "C2"}
Utterances == {"hello", "trigger-error"}
Completions == {"r1", "r2"}

(***************************************************************************)
(* Program constants.                                                      *)
(***************************************************************************)
EMBED_GROUP == 3
LOAD_BATCH == 100
SLEEP_SECONDS == 1
FILE_LIMIT == 5
FirstId == 10
DOCUMENT_TYPE == "FORM_10K_ITEM1"
APOLOGY == "I'm sorry, there was an error retrieving the information you requested."

VARIABLES
  pc,                 \* position of the notebook run
  file_names, fi,     \* the listing and the index of the next file
  count,              \* the global `count` (filing loop, then upsert loop)
  embedding_entries,  \* records of the filings completed so far
  company_name, cusip, docs, groups, gi, res, seq_id, embeddings,
                      \* frame of create_text_embedding_entries
  clock, calls,       \* seconds slept so far; embedding calls of this frame
  filings,            \* the filings loaded so far (history)
  edf, emb_entries,   \* the staged frame and the records read back from it
  companies, documents, rels, nextId,   \* the graph store
  total, batches, bi, \* the upsert loop
  trips, failed_batch,     \* round trips of this run; the batch whose trip raised
  runs, firstRun,          \* completed runs; the store after the first of them
  chat_pc, input_text, history, completion, chat_ret, memory, turns

embedVars == <<file_names, fi, embedding_entries, company_name, cusip, docs,
               groups, gi, res, seq_id, embeddings, clock, calls, filings>>
stageVars == <<edf, emb_entries, companies>>
storeVars == <<documents, rels, nextId>>
loadVars == <<total, batches, bi, trips, failed_batch, runs, firstRun>>
chatVars == <<chat_pc, input_text, history, completion, chat_ret, memory,
              turns>>
vars == <<pc, count, embedVars, stageVars, storeVars, loadVars, chatVars>>

(***************************************************************************)
(* Python built-ins used by the cells.                                     *)
(***************************************************************************)
max(a, b) == IF a >= b THEN a ELSE b

min(a, b) == IF a <= b THEN a ELSE b

RECURSIVE range(_, _, _)
range(start, stop, step) ==
  IF start >= stop THEN <<>> ELSE <<start>> \o range(start + step, stop, step)

\* xs[lo:hi] for 0 <= lo: the slice is clipped at the end of the list
Slice(xs, lo, hi) == SubSeq(xs, lo + 1, min(hi, Len(xs)))

Digits == <<"0", "1", "2", "3", "4", "5", "6", "7", "8", "9">>

RECURSIVE str(_)
str(n) ==
  IF n < 0 THEN "-" \o str(0 - n)
  ELSE IF n < 10 THEN Digits[n + 1]
  ELSE str(n \div 10) \o Digits[(n % 10) + 1]

(***************************************************************************)
(* def chunks(xs, n=3)                                                     *)
(***************************************************************************)
\* chunks that yields one (empty) group for an empty list
chunksAtLeastOne(xs, n) ==
  LET m == max(1, n)
      starts == range(0, max(1, Len(xs)), m)
  IN  [j \in 1..Len(starts) |-> Slice(xs, starts[j], starts[j] + m)]

\* chunks that keeps full groups only
chunksFullOnly(xs, n) ==
  LET m == max(1, n)
      starts == range(0, Len(xs) - m + 1, m)
  IN  [j \in 1..Len(starts) |-> Slice(xs, starts[j], starts[j] + m)]

chunks(xs, n) ==
  LET m == max(1, n)
      starts == range(0, Len(xs), m)
  IN  [j \in 1..Len(starts) |-> Slice(xs, starts[j], starts[j] + m)]

(***************************************************************************)
(* The embedding capability: one vector per input text, in input order.    *)
(* A text is a number; its vector is a pair derived from it.               *)
(***************************************************************************)
Values(text) == <<2 * text + 1, 0 - text>>

get_embeddings(d) == [i \in 1..Len(d) |-> Values(d[i])]

\* the i-th chunk (1-based) the splitter yields for the file at index f
ChunkText(f, i) == f * 1000 + i

\* the record with its synthetic id built from the cusip
EntryKeyedByCusip(name, key, seq, vec, text) ==
  [companyName |-> name, cusip |-> key, seqId |-> seq,
   contextId |-> key \o str(seq), textEmbedding |-> vec, text |-> text]

Entry(name, key, seq, vec, text) ==
  [companyName |-> name, cusip |-> key, seqId |-> seq,
   contextId |-> name \o str(seq), textEmbedding |-> vec, text |-> text]

\* the inner loop taking the first vector of the group for every chunk
GroupEntriesFirstVector(name, key, seq, d, embs) ==
  [i \in 1..Len(d) |-> Entry(name, key, seq + i, embs[1], d[i])]

\* the inner loop numbering after the append instead of before it
GroupEntriesLateIncrement(name, key, seq, d, embs) ==
  [i \in 1..Len(d) |-> Entry(name, key, seq + i - 1, embs[i], d[i])]

\* the inner loop over one group d, entered with the given seq_id
GroupEntries(name, key, seq, d, embs) ==
  [i \in 1..Len(d) |-> Entry(name, key, seq + i, embs[i], d[i])]

RECURSIVE EntriesFrom(_, _, _, _, _)
EntriesFrom(name, key, seq, gs, g) ==
  IF g > Len(gs) THEN <<>>
  ELSE GroupEntries(name, key, seq, gs[g], get_embeddings(gs[g]))
       \o EntriesFrom(name, key, seq + Len(gs[g]), gs, g + 1)

\* create_text_embedding_entries when no embedding call fails
create_text_embedding_entries(ds, name, key) ==
  EntriesFrom(name, key, 0 - 1, chunks(ds, EMBED_GROUP), 1)

(***************************************************************************)
(* pd.DataFrame(list of dicts) and DataFrame.to_dict(orient='records'):    *)
(* the frame holds one column per key, the records are read back by row.   *)
(***************************************************************************)
DataFrame(entries) ==
  [companyName   |-> [i \in 1..Len(entries) |-> entries[i].companyName],
   cusip         |-> [i \in 1..Len(entries) |-> entries[i].cusip],
   seqId         |-> [i \in 1..Len(entries) |-> entries[i].seqId],
   contextId     |-> [i \in 1..Len(entries) |-> entries[i].contextId],
   textEmbedding |-> [i \in 1..Len(entries) |-> entries[i].textEmbedding],
   text          |-> [i \in 1..Len(entries) |-> entries[i].text]]

to_dict(df) ==
  [i \in 1..Len(df.contextId) |->
     [companyName |-> df.companyName[i], cusip |-> df.cusip[i],
      seqId |-> df.seqId[i], contextId |-> df.contextId[i],
      textEmbedding |-> df.textEmbedding[i], text |-> df.text[i]]]

(***************************************************************************)
(* The graph store and the upsert query.  A node or relationship is a      *)
(* record with an identity of its own; MERGE creates one only when none    *)
(* matches.                                                                *)
(***************************************************************************)
CompanyUniverse ==
  {[nid |-> 1, cusip |-> "C1"], [nid |-> 2, cusip |-> "C2"]}

\* a MATCH that leaves the cusip out
MatchCompanyAny(cs, record) == cs

\* MATCH(c:Company {cusip:record.cusip})
MatchCompany(cs, record) == {c \in cs : c.cusip = record.cusip}

\* MERGE(b:Document {documentId:record.contextId})
MergeDocument(ds, id, fresh) ==
  IF \E b \in ds : b.documentId = id THEN ds
  ELSE ds \cup {[nid |-> fresh, documentId |-> id, documentType |-> "",
                 seqId |-> 0 - 1, textEmbedding |-> <<>>, text |-> 0 - 1]}

\* SET b.documentType = ..., b.seqId = ..., b.textEmbedding = ..., b.text = ...
SetDocument(ds, id, record) ==
  {IF b.documentId = id
     THEN [b EXCEPT !.documentType = DOCUMENT_TYPE, !.seqId = record.seqId,
                    !.textEmbedding = record.textEmbedding,
                    !.text = record.text]
     ELSE b : b \in ds}

\* CREATE in place of the MERGE of the association
CreateHas(rs, src, dst, fresh) ==
  rs \cup {[rid |-> fresh, src |-> src, dst |-> dst]}

\* MERGE(c)-[:HAS]->(b)
MergeHas(rs, src, dst, fresh) ==
  IF \E r \in rs : r.src = src /\ r.dst = dst THEN rs
  ELSE rs \cup {[rid |-> fresh, src |-> src, dst |-> dst]}

\* the rows of one record: MERGE, SET and MERGE once per matched company
RECURSIVE UpsertRows(_, _, _)
UpsertRows(g, cs, record) ==
  IF cs = {} THEN g
  ELSE
    LET c == CHOOSE x \in cs : \A y \in cs : x.nid <= y.nid
        d1 == MergeDocument(g.documents, record.contextId, g.nextId)
        n1 == IF d1 = g.documents THEN g.nextId ELSE g.nextId + 1
        d2 == SetDocument(d1, record.contextId, record)
        bs == {b \in d2 : b.documentId = record.contextId}
        b == CHOOSE x \in bs : \A y \in bs : x.nid <= y.nid
        r1 == MergeHas(g.rels, c.nid, b.nid, n1)
        n2 == IF r1 = g.rels THEN n1 ELSE n1 + 1
    IN  UpsertRows([documents |-> d2, rels |-> r1, nextId |-> n2],
                   cs \ {c}, record)

\* UNWIND $records AS record ... over records[lo..hi], in list order.  The
\* range is halved and the graph after the first half taken as a value, so
\* that a batch of 100 records nests only a few levels deep.
RECURSIVE Unwind(_, _, _, _, _)
Unwind(g, cs, records, lo, hi) ==
  IF lo > hi THEN g
  ELSE IF lo = hi
    THEN UpsertRows(g, MatchCompany(cs, records[lo]), records[lo])
  ELSE LET mid == (lo + hi) \div 2
       IN  CHOOSE out \in
             {Unwind(left, cs, records, mid + 1, hi) :
                left \in {Unwind(g, cs, records, lo, mid)}} : TRUE

\* gds.run_cypher(query, params = {'records':d}): one batch, one transaction
run_cypher(g, cs, records) == Unwind(g, cs, records, 1, Len(records))

Store == [documents |-> documents, rels |-> rels, nextId |-> nextId]

NoStore == [documents |-> {}, rels |-> {}, nextId |-> 0]

(***************************************************************************)
(* Initial states.                                                         *)
(***************************************************************************)
SeqsUpTo(S, n) == UNION {[1..m -> S] : m \in 0..n}

NoFrame == [companyName |-> <<>>, cusip |-> <<>>, seqId |-> <<>>,
            contextId |-> <<>>, textEmbedding |-> <<>>, text |-> <<>>]

NoCompletion == [ok |-> FALSE, text |-> ""]

ChatIdle ==
  /\ chat_pc = "idle"
  /\ input_text = ""
  /\ history = <<>>
  /\ completion = NoCompletion
  /\ chat_ret = ""
  /\ memory = <<>>
  /\ turns = 0

FrameIdle ==
  /\ company_name = ""
  /\ cusip = ""
  /\ docs = <<>>
  /\ groups = <<>>
  /\ gi = 1
  /\ res = <<>>
  /\ seq_id = 0 - 1
  /\ embeddings = <<>>
  /\ calls = <<>>

LoadIdle ==
  /\ total = 0
  /\ batches = <<>>
  /\ bi = 1
  /\ trips = 0
  /\ failed_batch = 0
  /\ runs = 0
  /\ firstRun = NoStore

StoreEmpty ==
  /\ documents = {}
  /\ rels = {}
  /\ nextId = FirstId

\* file_names = os.listdir(...)[0:5]; TRUE marks a name that contains '.txt'
Init ==
  /\ pc = "files"
  /\ \E listing \in SeqsUpTo(BOOLEAN, MaxFiles) :
       file_names = Slice(listing, 0, FILE_LIMIT)
  /\ fi = 1
  /\ count = 0
  /\ embedding_entries = <<>>
  /\ FrameIdle
  /\ clock = 0
  /\ filings = <<>>
  /\ edf = NoFrame
  /\ emb_entries = <<>>
  /\ companies = {}
  /\ StoreEmpty
  /\ LoadIdle
  /\ ChatIdle

(***************************************************************************)
(* The filing loop and create_text_embedding_entries.                      *)
(***************************************************************************)
\* for file_name in file_names: a name without '.txt' is passed over
SkipFile ==
  /\ pc = "files"
  /\ fi <= Len(file_names)
  /\ ~file_names[fi]
  /\ fi' = fi + 1
  /\ UNCHANGED <<pc, count, file_names, embedding_entries, company_name,
                 cusip, docs, groups, gi, res, seq_id, embeddings, clock,
                 calls, filings, stageVars, storeVars, loadVars, chatVars>>

\* count += 1; f10_k = json.load(f); the call of
\* create_text_embedding_entries up to the head of its loop
LoadFile ==
  /\ pc = "files"
  /\ fi <= Len(file_names)
  /\ file_names[fi]
  /\ \E name \in Names, key \in Cusips, k \in 0..MaxChunks :
       LET item1 == [i \in 1..k |-> ChunkText(fi, i)]
       IN  /\ company_name' = name
           /\ cusip' = key
           /\ docs' = item1
           /\ groups' = chunks(item1, EMBED_GROUP)
           /\ filings' = Append(filings, [companyName |-> name,
                                          cusip |-> key, item1 |-> item1])
  /\ count' = count + 1
  /\ res' = <<>>
  /\ seq_id' = 0 - 1
  /\ gi' = 1
  /\ embeddings' = <<>>
  /\ calls' = <<>>
  /\ pc' = "group"
  /\ UNCHANGED <<file_names, fi, embedding_entries, clock, stageVars,
                 storeVars, loadVars, chatVars>>

\* embeddings = EMBEDDING_MODEL.get_embeddings(d), the call succeeds
GetEmbeddings ==
  /\ pc = "group"
  /\ gi <= Len(groups)
  /\ embeddings' = get_embeddings(groups[gi])
  /\ calls' = Append(calls, [group |-> gi, at |-> clock, ok |-> TRUE])
  /\ pc' = "sleep"
  /\ UNCHANGED <<count, file_names, fi, embedding_entries, company_name,
                 cusip, docs, groups, gi, res, seq_id, clock, filings,
                 stageVars, storeVars, loadVars, chatVars>>

\* the call raises and the loop tries the same group again
GetEmbeddingsRetries ==
  /\ pc = "group"
  /\ gi <= Len(groups)
  /\ Len(calls) < 2 * Len(groups)
  /\ calls' = Append(calls, [group |-> gi, at |-> clock, ok |-> FALSE])
  /\ UNCHANGED <<pc, count, file_names, fi, embedding_entries, company_name,
                 cusip, docs, groups, gi, res, seq_id, embeddings, clock,
                 filings, stageVars, storeVars, loadVars, chatVars>>

\* the call raises: nothing catches it, the cell ends
GetEmbeddingsRaises ==
  /\ pc = "group"
  /\ gi <= Len(groups)
  /\ calls' = Append(calls, [group |-> gi, at |-> clock, ok |-> FALSE])
  /\ pc' = "embed_abort"
  /\ UNCHANGED <<count, file_names, fi, embedding_entries, company_name,
                 cusip, docs, groups, gi, res, seq_id, embeddings, clock,
                 filings, stageVars, storeVars, loadVars, chatVars>>

\* the loop without its delay
SleepSkipped ==
  /\ pc = "sleep"
  /\ pc' = "append"
  /\ UNCHANGED <<count, embedVars, stageVars, storeVars, loadVars, chatVars>>

\* time.sleep(1)
Sleep ==
  /\ pc = "sleep"
  /\ clock' = clock + SLEEP_SECONDS
  /\ pc' = "append"
  /\ UNCHANGED <<count, file_names, fi, embedding_entries, company_name,
                 cusip, docs, groups, gi, res, seq_id, embeddings, calls,
                 filings, stageVars, storeVars, loadVars, chatVars>>

\* for i in range(len(d)): seq_id += 1; res.append({...})
AppendGroup ==
  /\ pc = "append"
  /\ res' = res \o GroupEntries(company_name, cusip, seq_id, groups[gi],
                                embeddings)
  /\ seq_id' = seq_id + Len(groups[gi])
  /\ gi' = gi + 1
  /\ pc' = "group"
  /\ UNCHANGED <<count, file_names, fi, embedding_entries, company_name,
                 cusip, docs, groups, embeddings, clock, calls, filings,
                 stageVars, storeVars, loadVars, chatVars>>

\* return res
Return ==
  /\ pc = "group"
  /\ gi > Len(groups)
  /\ pc' = "ret"
  /\ UNCHANGED <<count, embedVars, stageVars, storeVars, loadVars, chatVars>>

\* embedding_entries.extend(...)
Extend ==
  /\ pc = "ret"
  /\ embedding_entries' = embedding_entries \o res
  /\ fi' = fi + 1
  /\ pc' = "files"
  /\ UNCHANGED <<count, file_names, company_name, cusip, docs, groups, gi,
                 res, seq_id, embeddings, clock, calls, filings, stageVars,
                 storeVars, loadVars, chatVars>>

\* the loop is exhausted: len(embedding_entries)
FilesDone ==
  /\ pc = "files"
  /\ fi > Len(file_names)
  /\ pc' = "embed_done"
  /\ UNCHANGED <<count, embedVars, stageVars, storeVars, loadVars, chatVars>>

(***************************************************************************)
(* The staging cells: edf = pd.DataFrame(embedding_entries), the           *)
(* connection to the store (whose Company nodes exist beforehand) and      *)
(* emb_entries = edf.to_dict(orient='records').                            *)
(***************************************************************************)
Stage ==
  /\ pc = "embed_done"
  /\ edf' = DataFrame(embedding_entries)
  /\ emb_entries' = to_dict(DataFrame(embedding_entries))
  /\ companies' \in SUBSET CompanyUniverse
  /\ pc' = "staged"
  /\ UNCHANGED <<count, embedVars, storeVars, loadVars, chatVars>>

(***************************************************************************)
(* The bulk upsert loop.                                                   *)
(***************************************************************************)
\* total = len(emb_entries); count = 0; for d in chunks(emb_entries, 100)
StartLoad ==
  /\ pc = "staged"
  /\ total' = Len(emb_entries)
  /\ count' = 0
  /\ batches' = chunks(emb_entries, LOAD_BATCH)
  /\ bi' = 1
  /\ trips' = 0
  /\ pc' = "load"
  /\ UNCHANGED <<embedVars, stageVars, storeVars, failed_batch, runs,
                 firstRun, chatVars>>

\* the loop counting the rows the query reports (cnt) instead of len(d)
RunCypherCountsWritten ==
  /\ pc = "load"
  /\ bi <= Len(batches)
  /\ LET g == run_cypher(Store, companies, batches[bi])
     IN  /\ documents' = g.documents
         /\ rels' = g.rels
         /\ nextId' = g.nextId
  /\ count' = count + Len(SelectSeq(batches[bi],
                 LAMBDA r : MatchCompany(companies, r) # {}))
  /\ trips' = trips + 1
  /\ bi' = bi + 1
  /\ UNCHANGED <<pc, embedVars, stageVars, total, batches, failed_batch,
                 runs, firstRun, chatVars>>

\* gds.run_cypher(..., params = {'records':d}) commits; count += len(d)
RunCypher ==
  /\ pc = "load"
  /\ bi <= Len(batches)
  /\ LET g == run_cypher(Store, companies, batches[bi])
     IN  /\ documents' = g.documents
         /\ rels' = g.rels
         /\ nextId' = g.nextId
  /\ count' = count + Len(batches[bi])
  /\ trips' = trips + 1
  /\ bi' = bi + 1
  /\ UNCHANGED <<pc, embedVars, stageVars, total, batches, failed_batch,
                 runs, firstRun, chatVars>>

\* the round trip raises after the first record of the batch was written
RunCypherRaisesHalfway ==
  /\ pc = "load"
  /\ bi <= Len(batches)
  /\ LET g == run_cypher(Store, companies, Slice(batches[bi], 0, 1))
     IN  /\ documents' = g.documents
         /\ rels' = g.rels
         /\ nextId' = g.nextId
  /\ trips' = trips + 1
  /\ failed_batch' = bi
  /\ pc' = "load_abort"
  /\ UNCHANGED <<count, embedVars, stageVars, total, batches, bi, runs,
                 firstRun, chatVars>>

\* the round trip raises: its transaction is rolled back, the cell ends
RunCypherRaises ==
  /\ pc = "load"
  /\ bi <= Len(batches)
  /\ trips' = trips + 1
  /\ failed_batch' = bi
  /\ pc' = "load_abort"
  /\ UNCHANGED <<count, embedVars, stageVars, storeVars, total, batches, bi,
                 runs, firstRun, chatVars>>

\* the loop is exhausted
LoadDone ==
  /\ pc = "load"
  /\ bi > Len(batches)
  /\ runs' = runs + 1
  /\ firstRun' = IF runs = 0 THEN Store ELSE firstRun
  /\ pc' = "load_done"
  /\ UNCHANGED <<count, embedVars, stageVars, storeVars, total, batches, bi,
                 trips, failed_batch, chatVars>>

\* the cell is run again on the same emb_entries
Rerun ==
  /\ pc = "load_done"
  /\ runs < MaxRuns
  /\ pc' = "staged"
  /\ UNCHANGED <<count, embedVars, stageVars, storeVars, loadVars, chatVars>>

Next ==
  \/ SkipFile
  \/ LoadFile
  \/ GetEmbeddings
  \/ GetEmbeddingsRaises
  \/ Sleep
  \/ AppendGroup
  \/ Return
  \/ Extend
  \/ FilesDone
  \/ Stage
  \/ StartLoad
  \/ RunCypher
  \/ RunCypherRaises
  \/ LoadDone
  \/ Rerun

Spec == Init /\ [][Next]_vars

(***************************************************************************)
(* The bulk upsert loop on long record lists.  The initial states are the  *)
(* states in which the filing loop ends (at FilesDone) when the listing    *)
(* holds one filing, its chunk count is one of LoadSizes and no embedding  *)
(* call fails.                                                             *)
(***************************************************************************)
RECURSIVE AllEntries(_, _)
AllEntries(fs, i) ==
  IF i > Len(fs) THEN <<>>
  ELSE create_text_embedding_entries(fs[i].item1, fs[i].companyName,
                                     fs[i].cusip)
       \o AllEntries(fs, i + 1)

RECURSIVE GroupsBefore(_, _)
GroupsBefore(fs, i) ==
  IF i <= 1 THEN 0
  ELSE GroupsBefore(fs, i - 1) + Len(chunks(fs[i - 1].item1, EMBED_GROUP))

\* the state at the end of the filing loop over the filings fs
EmbedDone(fs) ==
  LET n == Len(fs)
      last == fs[n]
      gs == chunks(last.item1, EMBED_GROUP)
  IN  /\ pc = "embed_done"
      /\ file_names = [i \in 1..n |-> TRUE]
      /\ fi = n + 1
      /\ count = n
      /\ embedding_entries = AllEntries(fs, 1)
      /\ company_name = last.companyName
      /\ cusip = last.cusip
      /\ docs = last.item1
      /\ groups = gs
      /\ gi = Len(gs) + 1
      /\ res = create_text_embedding_entries(last.item1, last.companyName,
                                             last.cusip)
      /\ seq_id = Len(last.item1) - 1
      /\ embeddings = IF gs = <<>> THEN <<>> ELSE get_embeddings(gs[Len(gs)])
      /\ clock = (GroupsBefore(fs, n) + Len(gs)) * SLEEP_SECONDS
      /\ calls = [g \in 1..Len(gs) |->
                    [group |-> g,
                     at |-> (GroupsBefore(fs, n) + g - 1) * SLEEP_SECONDS,
                     ok |-> TRUE]]
      /\ filings = fs

\* chunk counts within LoadSlack of a multiple of the batch size
LoadSizes ==
  {m * LOAD_BATCH + d : m \in 0..LoadMaxBatches, d \in (0 - LoadSlack)..LoadSlack}
    \cap Nat

InitLoad ==
  /\ \E name \in Names, key \in Cusips, k \in LoadSizes :
       EmbedDone(<<[companyName |-> name, cusip |-> key,
                    item1 |-> [i \in 1..k |-> ChunkText(1, i)]]>>)
  /\ edf = NoFrame
  /\ emb_entries = <<>>
  /\ companies = {}
  /\ StoreEmpty
  /\ LoadIdle
  /\ ChatIdle

NextLoad ==
  \/ Stage
  \/ StartLoad
  \/ RunCypher
  \/ RunCypherRaises
  \/ LoadDone
  \/ Rerun

SpecLoad == InitLoad /\ [][NextLoad]_vars

\* every end of a filing loop that loaded at least one filing and in which
\* the last file was a filing is the state EmbedDone describes
EmbedDoneAsDescribed ==
  (pc = "embed_done" /\ filings # <<>> /\ file_names[Len(file_names)]
     /\ \A i \in 1..Len(file_names) : file_names[i])
    => EmbedDone(filings)

(***************************************************************************)
(* The chat wrapper.  memory is the message list of the                    *)
(* ConversationBufferMemory built next to it; history is the argument the  *)
(* chat widget passes in.                                                  *)
(***************************************************************************)
Histories == SeqsUpTo(Utterances \X (Completions \cup {APOLOGY}), MaxHistory)

\* chat_response(input_text, history) is entered
ChatCall ==
  /\ chat_pc \in {"idle", "returned"}
  /\ turns < MaxTurns
  /\ \E u \in Utterances, h \in Histories :
       /\ input_text' = u
       /\ history' = h
  /\ completion' = NoCompletion
  /\ chat_ret' = ""
  /\ turns' = turns + 1
  /\ chat_pc' = "try"
  /\ UNCHANGED <<pc, count, embedVars, stageVars, storeVars, loadVars,
                 memory>>

\* return agent_chain(input_text)
AgentChainReturns ==
  /\ chat_pc = "try"
  /\ \E t \in Completions :
       /\ completion' = [ok |-> TRUE, text |-> t]
       /\ chat_ret' = t
  /\ chat_pc' = "returned"
  /\ UNCHANGED <<pc, count, embedVars, stageVars, storeVars, loadVars,
                 input_text, history, memory, turns>>

\* agent_chain(input_text) raises
AgentChainRaises ==
  /\ chat_pc = "try"
  /\ chat_pc' = "except"
  /\ UNCHANGED <<pc, count, embedVars, stageVars, storeVars, loadVars,
                 input_text, history, completion, chat_ret, memory,
                 turns>>

\* an except clause that raises again
ExceptRaises ==
  /\ chat_pc = "except"
  /\ chat_pc' = "raised"
  /\ UNCHANGED <<pc, count, embedVars, stageVars, storeVars, loadVars,
                 input_text, history, completion, chat_ret, memory, turns>>

\* except: return "I'm sorry, ..."
ExceptReturns ==
  /\ chat_pc = "except"
  /\ chat_ret' = APOLOGY
  /\ chat_pc' = "returned"
  /\ UNCHANGED <<pc, count, embedVars, stageVars, storeVars, loadVars,
                 input_text, history, completion, memory, turns>>

InitChat ==
  /\ pc = "files"
  /\ file_names = <<>>
  /\ fi = 1
  /\ count = 0
  /\ embedding_entries = <<>>
  /\ FrameIdle
  /\ clock = 0
  /\ filings = <<>>
  /\ edf = NoFrame
  /\ emb_entries = <<>>
  /\ companies = {}
  /\ StoreEmpty
  /\ LoadIdle
  /\ ChatIdle

NextChat ==
  \/ ChatCall
  \/ AgentChainReturns
  \/ AgentChainRaises
  \/ ExceptReturns

SpecChat == InitChat /\ [][NextChat]_vars

(***************************************************************************)
(* Auxiliary definitions of the properties.                                *)
(***************************************************************************)
CeilDiv(a, b) == (a + b - 1) \div b

RECURSIVE Flatten(_, _)
Flatten(gs, i) == IF i > Len(gs) THEN <<>> ELSE gs[i] \o Flatten(gs, i + 1)

Iota(n) == [i \in 1..n |-> i]

\* chunks(xs, B) has ceil(N/B) groups, all of B elements but the last, which
\* has 1..B, and the groups concatenated give xs
ChunksLaw(xs, B) ==
  LET gs == chunks(xs, B)
  IN  /\ Len(gs) = CeilDiv(Len(xs), B)
      /\ \A j \in 1..Len(gs) - 1 : Len(gs[j]) = B
      /\ Len(gs) > 0 => Len(gs[Len(gs)]) \in 1..B
      /\ Flatten(gs, 1) = xs

(***************************************************************************)
(* C1.  When create_text_embedding_entries returns for a filing split      *)
(* into k chunks (every embedding call having succeeded), it returns       *)
(* exactly k records and the record at position i (0-based) has seqId i.   *)
(***************************************************************************)
C1_SeqIds ==
  pc = "ret" =>
    /\ Len(res) = Len(docs)
    /\ \A i \in 1..Len(res) : res[i].seqId = i - 1

C1_Witness ==
  /\ pc = "ret"
  /\ Len(docs) = 7
  /\ Len(groups) = 3
  /\ res[7].seqId = 6

(***************************************************************************)
(* C2.  chunks(records, B) for B >= 1 yields ceil(N/B) groups, all of B    *)
(* elements except the last, which has 1..B, and their concatenation is    *)
(* the list; the upsert loop makes one round trip per group, ceil(N/100)   *)
(* in a run that completes (none for N = 0).                               *)
(***************************************************************************)
C2_Batching ==
  /\ \A N \in 0..MaxProbeLen, B \in 1..MaxProbeSize : ChunksLaw(Iota(N), B)
  /\ pc \in {"load", "load_done", "load_abort"} =>
       /\ total = Len(emb_entries)
       /\ ChunksLaw(emb_entries, LOAD_BATCH)
       /\ Len(batches) = CeilDiv(total, LOAD_BATCH)
       /\ failed_batch = 0 => trips = bi - 1
  /\ pc = "load_done" => trips = CeilDiv(total, LOAD_BATCH)

C2_Witness ==
  /\ pc = "load_done"
  /\ total = LOAD_BATCH + 1
  /\ trips = 2
  /\ Len(batches[2]) = 1

(***************************************************************************)
(* C3.  Running the upsert loop a second time on the same records and      *)
(* the same Company nodes leaves the store as the first complete run left  *)
(* it: the same Document nodes with the same fields, the same HAS          *)
(* associations, and no more Document nodes than before.                   *)
(***************************************************************************)
C3_Idempotent ==
  (pc = "load_done" /\ runs = 2) =>
    /\ documents = firstRun.documents
    /\ rels = firstRun.rels
    /\ Cardinality(documents) <= Cardinality(firstRun.documents)

C3_Witness ==
  /\ pc = "load_done"
  /\ runs = 2
  /\ Cardinality(documents) >= 3
  /\ rels # {}

(***************************************************************************)
(* C4.  chat_response never lets an exception out: when the completion     *)
(* model raises, it returns the fixed apology; when the model answers, it  *)
(* returns the model's text unchanged.                                     *)
(***************************************************************************)
C4_NoException ==
  /\ chat_pc \in {"idle", "try", "except", "returned"}
  /\ chat_pc = "returned" =>
       chat_ret = IF completion.ok THEN completion.text ELSE APOLOGY

C4_Witness ==
  /\ chat_pc = "returned"
  /\ input_text = "trigger-error"
  /\ ~completion.ok
  /\ chat_ret = APOLOGY

(***************************************************************************)
(* C5.  End to end: once the filing loop and the upsert loop have          *)
(* completed, every processed filing (NAME, K, k chunks) whose cusip K     *)
(* has a Company node has exactly k Document nodes NAME+"0" ..             *)
(* NAME+str(k-1) in the store, the one with documentId NAME+str(i) has     *)
(* seqId i, and each has a HAS association from the Company node with      *)
(* cusip K.                                                                *)
(***************************************************************************)
HasFrom(c, b) == \E r \in rels : r.src = c.nid /\ r.dst = b.nid

FilingPersisted(F) ==
  LET k == Len(F.item1)
      ids == {F.companyName \o str(i) : i \in 0..k - 1}
  IN  /\ Cardinality({b \in documents : b.documentId \in ids}) = k
      /\ \A i \in 0..k - 1 :
           \E b \in documents :
             /\ b.documentId = F.companyName \o str(i)
             /\ b.seqId = i
             /\ \E c \in companies : c.cusip = F.cusip /\ HasFrom(c, b)

C5_EndToEnd ==
  pc = "load_done" =>
    \A f \in 1..Len(filings) :
      (\E c \in companies : c.cusip = filings[f].cusip)
        => FilingPersisted(filings[f])

\* no record of another filing carries one of the filing's synthetic ids
\* with another seqId
NoForeignId(f) ==
  \A i \in 1..Len(emb_entries) :
    \A j \in 0..Len(filings[f].item1) - 1 :
      emb_entries[i].contextId = filings[f].companyName \o str(j)
        => emb_entries[i].seqId = j

C5_EndToEndUnlessForeignId ==
  pc = "load_done" =>
    \A f \in 1..Len(filings) :
      ((\E c \in companies : c.cusip = filings[f].cusip) /\ NoForeignId(f))
        => FilingPersisted(filings[f])

(***************************************************************************)
(* C6.  As claimed: in every state every Document node is the target of a  *)
(* HAS association from exactly one Company node.                          *)
(***************************************************************************)
LinkedCompanies(b) == {c \in companies : HasFrom(c, b)}

C6_ExactlyOneCompany ==
  \A b \in documents : Cardinality(LinkedCompanies(b)) = 1

(***************************************************************************)
(* C6, amended.  In every state every Document node is the target of a     *)
(* HAS association from at least one Company node: from the Company node   *)
(* of every company key carried by an upserted record with its             *)
(* documentId, and from no other; from exactly one when those records      *)
(* all carry the same key.                                                 *)
(***************************************************************************)
\* the records of the round trips committed so far
Upserted ==
  IF runs >= 1 THEN emb_entries ELSE Flatten(SubSeq(batches, 1, bi - 1), 1)

KeysOf(b) ==
  {Upserted[i].cusip : i \in {j \in 1..Len(Upserted) :
                                 Upserted[j].contextId = b.documentId}}

C6_LinkedToRecordCompanies ==
  \A b \in documents :
    /\ LinkedCompanies(b) # {}
    /\ LinkedCompanies(b) = {c \in companies : c.cusip \in KeysOf(b)}
    /\ Cardinality(KeysOf(b)) = 1 => Cardinality(LinkedCompanies(b)) = 1

C6_Witness ==
  /\ pc = "load_done"
  /\ runs = 2
  /\ \E b \in documents : Cardinality(LinkedCompanies(b)) = 2
  /\ \E b \in documents : Cardinality(LinkedCompanies(b)) = 1

(***************************************************************************)
(* C7.  When an embedding call fails, the call is not tried again, no      *)
(* later group of the filing is sent, the function returns nothing (no     *)
(* record of the filing reaches embedding_entries, not even those of the   *)
(* groups already embedded) and the run ends there: no later filing is     *)
(* processed.                                                              *)
(***************************************************************************)
EmbedFailed == \E i \in 1..Len(calls) : ~calls[i].ok

EmbedAborted ==
  /\ pc = "embed_abort"
  /\ Len(calls) = gi
  /\ \A i \in 1..Len(calls) : calls[i].group = i /\ (calls[i].ok <=> i < gi)
  /\ Len(res) = (gi - 1) * EMBED_GROUP
  /\ embedding_entries = AllEntries(SubSeq(filings, 1, Len(filings) - 1), 1)
  /\ fi = Len(SelectSeq(SubSeq(file_names, 1, fi), LAMBDA t : ~t)) + Len(filings)

C7_EmbedFailureAborts ==
  [][(EmbedFailed => FALSE) /\ (EmbedFailed' => EmbedAborted')]_vars

C7_Witness ==
  /\ pc = "embed_abort"
  /\ gi = 2
  /\ gi < Len(groups)
  /\ res # <<>>
  /\ fi < Len(file_names)
  /\ embedding_entries = <<>>

(***************************************************************************)
(* C8.  When the round trip of batch j fails, the store holds exactly the  *)
(* effect of the batches before j on the store the run started from,       *)
(* batch j has left nothing, no later batch is attempted and nothing is    *)
(* undone afterwards.                                                      *)
(***************************************************************************)
StartStore ==
  IF runs = 0 THEN [documents |-> {}, rels |-> {}, nextId |-> FirstId]
  ELSE firstRun

RECURSIVE Committed(_)
Committed(n) ==
  IF n = 0 THEN StartStore
  ELSE run_cypher(Committed(n - 1), companies, batches[n])

LoadAborted ==
  /\ pc = "load_abort"
  /\ bi = failed_batch
  /\ trips = failed_batch
  /\ Store = Committed(failed_batch - 1)

C8_LoadFailureKeepsEarlier ==
  /\ [](failed_batch # 0 => LoadAborted)
  /\ [][failed_batch = 0]_vars

C8_Witness ==
  /\ pc = "load_abort"
  /\ failed_batch = 2
  /\ Len(batches) = 3
  /\ Cardinality(documents) = LOAD_BATCH
  /\ Cardinality(rels) = LOAD_BATCH

(***************************************************************************)
(* C9.  As claimed: every call of chat_response extends the history held   *)
(* by the memory object with the turn's utterance and response, and no     *)
(* step removes or changes an earlier entry.                               *)
(***************************************************************************)
C9_MemoryAppended ==
  [][IF chat_pc # "returned" /\ chat_pc' = "returned"
       THEN memory' = memory \o <<input_text', chat_ret'>>
       ELSE /\ Len(memory') >= Len(memory)
            /\ SubSeq(memory', 1, Len(memory)) = memory]_vars

(***************************************************************************)
(* C10.  Within one filing there is one embedding call per group of up to  *)
(* 3 chunks, in group order, and a call never starts less than 1 second    *)
(* after the call before it: the delay that follows a call is over before  *)
(* the next call starts.                                                   *)
(***************************************************************************)
C10_Throttle ==
  /\ \A g \in 1..Len(groups) : Len(groups[g]) \in 1..EMBED_GROUP
  /\ \A i \in 1..Len(calls) : calls[i].group = i
  /\ \A i \in 2..Len(calls) : calls[i].at >= calls[i - 1].at + SLEEP_SECONDS
  /\ pc \in {"sleep", "append"} => Len(calls) = gi
  /\ pc = "group" => Len(calls) = gi - 1
  /\ pc = "ret" => Len(calls) = Len(groups)

C10_Witness ==
  /\ pc = "ret"
  /\ Len(calls) = 3
  /\ calls[3].at = calls[1].at + 2 * SLEEP_SECONDS

(***************************************************************************)
(* C11.  When create_text_embedding_entries returns, the record with       *)
(* seqId i carries as text the i-th chunk of the filing in splitter order  *)
(* and as textEmbedding the vector of exactly that chunk: no chunk is      *)
(* dropped, repeated or paired with the vector of another chunk.           *)
(***************************************************************************)
C11_ChunkVectorPairing ==
  pc = "ret" =>
    /\ Len(res) = Len(docs)
    /\ \A i \in 1..Len(res) :
         /\ res[i].seqId = i - 1
         /\ res[i].text = docs[i]
         /\ res[i].textEmbedding = Values(docs[i])
    /\ \A i, j \in 1..Len(res) : i # j => res[i].text # res[j].text

C11_Witness ==
  /\ pc = "ret"
  /\ Len(docs) = 5
  /\ res[5].text = docs[5]
  /\ res[5].textEmbedding = Values(docs[5])
  /\ res[5].textEmbedding # res[4].textEmbedding

(***************************************************************************)
(* C12.  The synthetic id of every record is its company name followed by  *)
(* its decimal sequence id, and whenever two processed filings with at     *)
(* least one chunk each have the same company name, the run has produced   *)
(* two records with the same synthetic id, name+"0".                       *)
(***************************************************************************)
\* the position in embedding_entries of the first record of filing f
FirstRecord(f) ==
  Len(AllEntries(SubSeq(filings, 1, f - 1), 1)) + 1

C12_IdFromNameAndSeq ==
  pc = "embed_done" =>
    /\ \A i \in 1..Len(embedding_entries) :
         LET r == embedding_entries[i]
         IN  /\ r.contextId = r.companyName \o str(r.seqId)
             /\ r.seqId = 0 => r.contextId = r.companyName \o "0"
             /\ r.seqId = 10 => r.contextId = r.companyName \o "10"
    /\ \A f, g \in 1..Len(filings) :
         (/\ f < g
          /\ filings[f].companyName = filings[g].companyName
          /\ filings[f].item1 # <<>>
          /\ filings[g].item1 # <<>>)
           => /\ FirstRecord(f) # FirstRecord(g)
              /\ embedding_entries[FirstRecord(f)].contextId
                   = filings[f].companyName \o "0"
              /\ embedding_entries[FirstRecord(g)].contextId
                   = filings[f].companyName \o "0"

C12_Witness ==
  /\ pc = "embed_done"
  /\ Len(filings) = 2
  /\ filings[1].companyName = filings[2].companyName
  /\ filings[1].cusip # filings[2].cusip
  /\ Len(filings[1].item1) = 2
  /\ Len(filings[2].item1) = 1
  /\ embedding_entries[1].contextId = "Acme0"
  /\ embedding_entries[3].contextId = "Acme0"

(***************************************************************************)
(* C13.  For a filing without chunks create_text_embedding_entries         *)
(* returns the empty list, having made no embedding call and no throttling *)
(* delay.                                                                  *)
(***************************************************************************)
C13_EmptyFiling ==
  (pc = "ret" /\ docs = <<>>) =>
    /\ res = <<>>
    /\ calls = <<>>
    /\ groups = <<>>
    /\ clock = GroupsBefore(filings, Len(filings)) * SLEEP_SECONDS

C13_Witness ==
  /\ pc = "ret"
  /\ docs = <<>>
  /\ res = <<>>
  /\ Len(filings) = 2
  /\ clock = 2 * SLEEP_SECONDS

(***************************************************************************)
(* C14.  As claimed: when the filings of a run have pairwise distinct      *)
(* company names, the synthetic ids of all records of the run are          *)
(* pairwise distinct.                                                      *)
(***************************************************************************)
DistinctNames ==
  \A f, g \in 1..Len(filings) :
    f # g => filings[f].companyName # filings[g].companyName

C14_DistinctIds ==
  (pc = "embed_done" /\ DistinctNames) =>
    \A i, j \in 1..Len(embedding_entries) :
      i # j => embedding_entries[i].contextId # embedding_entries[j].contextId

(***************************************************************************)
(* C15.  A record whose cusip matches no Company node leaves no Document   *)
(* node and no HAS association and does not stop the round trip, yet it    *)
(* is counted: after a run that completes the loaded count is the number   *)
(* of records, also when fewer Document nodes were written.                *)
(***************************************************************************)
Matched(r) == \E c \in companies : c.cusip = r.cusip

UnmatchedLeaveNothing ==
  /\ pc \in {"load", "load_done", "load_abort"} =>
       /\ \A b \in documents :
            \E i \in 1..Len(emb_entries) :
              emb_entries[i].contextId = b.documentId /\ Matched(emb_entries[i])
       /\ \A r \in rels :
            /\ \E c \in companies : c.nid = r.src
            /\ \E b \in documents : b.nid = r.dst
       /\ failed_batch = 0 => count = Len(Flatten(SubSeq(batches, 1, bi - 1), 1))
  /\ pc = "load_done" =>
       /\ count = total
       /\ count = Len(emb_entries)
       /\ Cardinality(documents) <=
            Len(SelectSeq(emb_entries, LAMBDA r : Matched(r)))

\* a round trip that commits a batch without any matching record changes
\* nothing in the store, and the loop goes on, counting the batch
UnmatchedBatchPasses ==
  (/\ pc = "load"
   /\ bi' = bi + 1
   /\ \A i \in 1..Len(batches[bi]) : ~Matched(batches[bi][i]))
    => /\ pc' = "load"
       /\ failed_batch' = 0
       /\ UNCHANGED storeVars
       /\ count' = count + Len(batches[bi])

C15_UnmatchedCounted ==
  /\ []UnmatchedLeaveNothing
  /\ [][UnmatchedBatchPasses]_vars

C15_Witness ==
  /\ pc = "load_done"
  /\ \E i, j \in 1..Len(emb_entries) :
       Matched(emb_entries[i]) /\ ~Matched(emb_entries[j])
  /\ count = Len(emb_entries)
  /\ Cardinality(documents) < count
  /\ documents # {}

====
